---- MODULE Spec2Model ----
(***************************************************************************)
(* pybone: the trombone slide-position optimizer (src/pybone.py).          *)
(*                                                                         *)
(* One call of an optimizer method of class Trombone is modelled as a      *)
(* state machine: enumerate the (position, partial) states of every pitch, *)
(* build the layered digraph, run networkx's shortest_path (bidirectional  *)
(* Dijkstra), strip START/END and optionally round the positions.          *)
(*                                                                         *)
(* Units.  Semitones and slide positions are floats in the source; here    *)
(* they are integers counted in cents (1/100 of a semitone / position).    *)
(* A frequency is represented by its logarithm: the number of cents above  *)
(* A440, so that multiplying a frequency by n adds Log2Cents[n].           *)
(***************************************************************************)
EXTENDS Integers, Sequences, FiniteSets, TLC

VARIABLES
    slide_length,     \* Trombone.slide_length, in cents
    pitches,          \* argument: the list of pitches
    method,           \* which optimizer method is called
    round_positions,  \* argument round_positions
    pc,               \* position in the call
    error,            \* the exception that ended the call, or "none"
    out,              \* argument `out` of the running get_states_of_pitches
    id,               \* loop index (enumerate(pitches), range(len(states) - 1))
    partial,          \* get_positions_and_partials: partial
    positions,        \* get_positions_and_partials: positions
    partials,         \* get_positions_and_partials: partials
    states,           \* states / in_states
    out_states,       \* out_states (direction mode only)
    DG,               \* the nx.DiGraph: successor and predecessor adjacency
    dists,            \* bidirectional_dijkstra: dists[dir]
    paths,            \* bidirectional_dijkstra: paths[dir]
    fringe,           \* bidirectional_dijkstra: fringe[dir]
    seen,             \* bidirectional_dijkstra: seen[dir]
    c,                \* bidirectional_dijkstra: the heap tie-break counter
    finaldist,        \* bidirectional_dijkstra: finaldist
    finalpath,        \* bidirectional_dijkstra: finalpath
    dir,              \* bidirectional_dijkstra: dir
    path,             \* the list the method returns
    calls,            \* how many calls have been made with these arguments
    prev              \* what the previous call returned (or raised)

inputVars == <<slide_length, pitches, method, round_positions>>
enumVars == <<out, partial, positions, partials>>
searchVars == <<dists, paths, fringe, seen, c, finaldist, finalpath, dir>>
histVars == <<calls, prev>>
vars == <<slide_length, pitches, method, round_positions, pc, error, out, id,
          partial, positions, partials, states, out_states, DG, dists, paths,
          fringe, seen, c, finaldist, finalpath, dir, path, calls, prev>>

----------------------------------------------------------------------------
(* Bounds of the model *)

\* longest pitch sequence passed to an optimizer
MaxLen == 3

\* highest partial the enumeration loop may examine (the table Log2Cents
\* reaches one further)
MaxPartial == 14

----------------------------------------------------------------------------
(* Pitch model *)

CENT == 100

Note ==
    [C |-> 0, Db |-> 1, D |-> 2, Eb |-> 3, E |-> 4, F |-> 5,
     Gb |-> 6, G |-> 7, Ab |-> 8, A |-> 9, Bb |-> 10, B |-> 11]

SEMITONES_PER_OCTAVE == 12
A440_OCTAVE == 4
A440_SEMITONES == Note.A + SEMITONES_PER_OCTAVE * A440_OCTAVE

Pitch(note, octave) == [note |-> note, octave |-> octave, offset |-> 0]

\* Python's round(): to the nearest integer, halves to the even neighbour.
\* x is in cents, the result in whole semitones (or whole positions).
round(x) ==
    LET f == x \div CENT
        r == x % CENT
    IN  IF r * 2 < CENT THEN f
        ELSE IF r * 2 > CENT THEN f + 1
        ELSE IF f % 2 = 0 THEN f ELSE f + 1

get_semitones(p) ==
    (p.note + p.octave * SEMITONES_PER_OCTAVE) * CENT + p.offset
        - A440_SEMITONES * CENT

from_semitones(semitones) ==
    LET note_semitones == semitones + A440_SEMITONES * CENT
        rounded_semitones == round(note_semitones)
    IN  [note |-> rounded_semitones % SEMITONES_PER_OCTAVE,
         octave |-> rounded_semitones \div SEMITONES_PER_OCTAVE,
         offset |-> note_semitones - rounded_semitones * CENT]

\* 1200 * log2(n) rounded to the cent, n = 1 .. 16
Log2Cents ==
    <<0, 1200, 1902, 2400, 2786, 3102, 3369, 3600,
      3804, 3986, 4151, 4302, 4441, 4569, 4688, 4800>>

\* A440_HERTZ * 2 ** (semitones / 12), as cents above A440
get_hertz(p) == get_semitones(p)

\* log2(hertz / A440_HERTZ) * SEMITONES_PER_OCTAVE, then from_semitones
from_hertz(hertz) == from_semitones(hertz)

----------------------------------------------------------------------------
(* Trombone *)

TROMBONE_FUNDAMENTAL == Pitch(Note.Bb, 1)
TROMBONE_SLIDE_LENGTH == 650
FLAT_TOLERANCE == -50

fundamental == TROMBONE_FUNDAMENTAL

\* get_position with the overtone frequency divided instead of multiplied
get_positionDivided(p, k) ==
    get_semitones(from_hertz(get_hertz(fundamental) - Log2Cents[k + 1]))
        - get_semitones(p)

get_position(p, k) ==
    LET semitones == get_semitones(p)
        first_position_hertz == get_hertz(fundamental)
        first_position_partial_hertz == first_position_hertz + Log2Cents[k + 1]
        first_position_partial_pitch == from_hertz(first_position_partial_hertz)
        first_position_partial_semitones == get_semitones(first_position_partial_pitch)
    IN  first_position_partial_semitones - semitones

State(i, p, position, k, o) ==
    [id |-> i, pitch |-> p, position |-> position, partial |-> k, out |-> o]

NoPitch == [note |-> 0, octave |-> 0, offset |-> 0]
START_NODE == State(-1, NoPitch, 0, 0, FALSE)
END_NODE == State(-2, NoPitch, 0, 0, FALSE)

----------------------------------------------------------------------------
(* The inputs the model draws from *)

PITCHES ==
    {Pitch(Note.C, 4), Pitch(Note.D, 4), Pitch(Note.F, 4), Pitch(Note.Bb, 2)}

SLIDE_LENGTHS == {0, TROMBONE_SLIDE_LENGTH}

METHODS == {"distance", "direction", "gliss", "legato"}

PitchSeqs == UNION {[1..n -> PITCHES] : n \in 0..MaxLen}

Init ==
    /\ slide_length \in SLIDE_LENGTHS
    /\ pitches \in PitchSeqs
    /\ method \in METHODS
    /\ round_positions \in BOOLEAN
    /\ pc = "call"
    /\ error = "none"
    /\ out = FALSE
    /\ id = 0
    /\ partial = 0
    /\ positions = <<>>
    /\ partials = <<>>
    /\ states = <<>>
    /\ out_states = <<>>
    /\ DG = [succ |-> <<>>, pred |-> <<>>]
    /\ dists = <<>>
    /\ paths = <<>>
    /\ fringe = <<>>
    /\ seen = <<>>
    /\ c = 0
    /\ finaldist = 0
    /\ finalpath = <<>>
    /\ dir = 1
    /\ path = <<>>
    /\ calls = 1
    /\ prev = [path |-> <<>>, error |-> "none", round_positions |-> FALSE]

----------------------------------------------------------------------------
(* get_states_of_pitches / get_states_of_pitch / get_positions_and_partials *)

\* get_states_of_pitches: states = []
EmptyStates == <<>>

\* the optimizer method starts: states = self.get_states_of_pitches(pitches)
Call ==
    /\ pc = "call"
    /\ pc' = "enumerate"
    /\ out' = FALSE
    /\ id' = 0
    /\ partial' = 0
    /\ positions' = <<>>
    /\ partials' = <<>>
    /\ states' = EmptyStates
    /\ out_states' = EmptyStates
    /\ UNCHANGED <<inputVars, error, DG, searchVars, path, histVars>>

\* TooHigh with the end of the slide itself counted as out of reach
TooHighInclusive(position) == position >= slide_length

\* "if position > self.slide_length": the partial is too high to play the note
TooHigh(position) == position > slide_length

\* Playable without the tolerance for flat notes
PlayableNoFlat(position) == position >= 0

\* "if position > -0.5": allow flat notes in first position
Playable(position) == position > FLAT_TOLERANCE

\* one pass of the while loop of get_positions_and_partials that does not break
EnumeratePartial ==
    /\ pc = "enumerate"
    /\ id < Len(pitches)
    /\ partial <= MaxPartial
    /\ LET position == get_position(pitches[id + 1], partial)
       IN  /\ ~TooHigh(position)
           /\ IF Playable(position)
                THEN /\ positions' = Append(positions, position)
                     /\ partials' = Append(partials, partial)
                ELSE UNCHANGED <<positions, partials>>
    /\ partial' = partial + 1
    /\ UNCHANGED <<inputVars, pc, error, out, id, states, out_states, DG,
                   searchVars, path, histVars>>

\* StatesOfPitch that stores every position rounded to the nearest integer
StatesOfPitchRounded(i, p, poss, parts, o) ==
    [j \in 1..Len(poss) |-> State(i, p, round(poss[j]) * CENT, parts[j], o)]

\* the states get_states_of_pitch builds from zip(positions, partials)
StatesOfPitch(i, p, poss, parts, o) ==
    [j \in 1..Len(poss) |-> State(i, p, poss[j], parts[j], o)]

\* RaisesUnplayable without the check "if not states"
NeverRaises(sts) == FALSE

\* whether get_states_of_pitch raises for the states it has built
RaisesUnplayable(sts) == sts = <<>>

\* the pass of the while loop that breaks; get_positions_and_partials returns
\* and get_states_of_pitch builds the states of the pitch or raises ValueError
EnumerateBreak ==
    /\ pc = "enumerate"
    /\ id < Len(pitches)
    /\ partial <= MaxPartial
    /\ TooHigh(get_position(pitches[id + 1], partial))
    /\ LET sts == StatesOfPitch(id, pitches[id + 1], positions, partials, out)
       IN  IF RaisesUnplayable(sts)
             THEN /\ pc' = "error"
                  /\ error' = "ValueError"
                  /\ UNCHANGED <<id, states, out_states>>
             ELSE /\ UNCHANGED <<pc, error>>
                  /\ id' = id + 1
                  /\ IF out
                       THEN /\ out_states' = Append(out_states, sts)
                            /\ UNCHANGED states
                       ELSE /\ states' = Append(states, sts)
                            /\ UNCHANGED out_states
    /\ partial' = 0
    /\ positions' = <<>>
    /\ partials' = <<>>
    /\ UNCHANGED <<inputVars, out, DG, searchVars, path, histVars>>

\* get_states_of_pitches returns; minimize_direction_changes calls it a second
\* time with out=True, every method then creates the graph
EnumerateDone ==
    /\ pc = "enumerate"
    /\ id = Len(pitches)
    /\ IF method = "direction" /\ ~out
         THEN /\ out' = TRUE
              /\ id' = 0
              /\ UNCHANGED pc
         ELSE /\ pc' = "graph"
              /\ UNCHANGED <<out, id>>
    /\ UNCHANGED <<inputVars, error, partial, positions, partials, states,
                   out_states, DG, searchVars, path, histVars>>

----------------------------------------------------------------------------
(* nx.DiGraph: the adjacency dicts of every node keep insertion order *)

add_node(G, n) ==
    IF n \in DOMAIN G.succ THEN G
    ELSE [succ |-> G.succ @@ (n :> <<>>), pred |-> G.pred @@ (n :> <<>>)]

\* adj[n] = {weight: w}: a new key goes last, an existing key keeps its place
SetItem(adj, n, w) ==
    IF \E i \in DOMAIN adj : adj[i].node = n
      THEN [i \in DOMAIN adj |->
              IF adj[i].node = n THEN [node |-> n, weight |-> w] ELSE adj[i]]
      ELSE Append(adj, [node |-> n, weight |-> w])

add_edge(G, u, v, w) ==
    LET G1 == add_node(add_node(G, u), v)
    IN  [succ |-> [G1.succ EXCEPT ![u] = SetItem(@, v, w)],
         pred |-> [G1.pred EXCEPT ![v] = SetItem(@, u, w)]]

\* add_edge for every <<u, v, w>> of a list, in the order of the list
RECURSIVE add_weighted_edges_from(_, _)
add_weighted_edges_from(G, edges) ==
    IF edges = <<>> THEN G
    ELSE add_weighted_edges_from(
             add_edge(G, edges[1][1], edges[1][2], edges[1][3]), Tail(edges))

\* abs()
abs(x) == IF x < 0 THEN -x ELSE x

\* Weight with the distance taken without abs()
WeightNoAbs(m, u, v) ==
    CASE m = "distance" -> u.position - v.position
      [] m = "gliss" -> IF u.partial = v.partial THEN 0 ELSE 1
      [] m = "legato" -> IF u.partial = v.partial THEN 1 ELSE 0

\* Weight with the gliss weights the wrong way round
WeightGlissInverted(m, u, v) ==
    CASE m = "distance" -> abs(u.position - v.position)
      [] m = "gliss" -> IF u.partial = v.partial THEN 1 ELSE 0
      [] m = "legato" -> IF u.partial = v.partial THEN 1 ELSE 0

\* Weight with the legato weights the wrong way round
WeightLegatoInverted(m, u, v) ==
    CASE m = "distance" -> abs(u.position - v.position)
      [] m = "gliss" -> IF u.partial = v.partial THEN 0 ELSE 1
      [] m = "legato" -> IF u.partial = v.partial THEN 0 ELSE 1

\* Weight taken on positions rounded before the graph is built
WeightRounded(m, u, v) ==
    CASE m = "distance" ->
             IF round_positions
               THEN abs(round(u.position) * CENT - round(v.position) * CENT)
               ELSE abs(u.position - v.position)
      [] m = "gliss" -> IF u.partial = v.partial THEN 0 ELSE 1
      [] m = "legato" -> IF u.partial = v.partial THEN 1 ELSE 0

\* the weight of the edge u -> v in the three single-layer methods
Weight(m, u, v) ==
    CASE m = "distance" -> abs(u.position - v.position)
      [] m = "gliss" -> IF u.partial = v.partial THEN 0 ELSE 1
      [] m = "legato" -> IF u.partial = v.partial THEN 1 ELSE 0

\* for s in layer: DG.add_edge(START_NODE, s, weight=0)
StartEdges(layer) == [i \in 1..Len(layer) |-> <<START_NODE, layer[i], 0>>]

\* for s in layer: DG.add_edge(s, END_NODE, weight=0)
EndEdges(layer) == [i \in 1..Len(layer) |-> <<layer[i], END_NODE, 0>>]

\* the edges between two adjacent layers, in the order of
\* product(curr_states, next_states) (the nested loops of gliss and legato)
LayerEdges(m, curr_states, next_states) ==
    LET n == Len(next_states)
    IN  [e \in 1..(Len(curr_states) * n) |->
            LET u == curr_states[((e - 1) \div n) + 1]
                v == next_states[((e - 1) % n) + 1]
            IN  <<u, v, Weight(m, u, v)>>]

\* DirectionPairEdges with the turn from out to in given weight 0
DirectionPairEdgesFreeTurn(curr_in, curr_out, next_in, next_out) ==
    IF curr_in.position > next_in.position
      THEN <<<<curr_in, next_in, 0>>, <<curr_out, next_in, 0>>>>
    ELSE IF curr_in.position < next_in.position
      THEN <<<<curr_out, next_out, 0>>, <<curr_in, next_out, 1>>>>
    ELSE <<<<curr_in, next_in, 0>>, <<curr_out, next_out, 0>>>>

\* the two edges minimize_direction_changes adds for the pair (curr_i, next_i)
DirectionPairEdges(curr_in, curr_out, next_in, next_out) ==
    IF curr_in.position > next_in.position          \* position moves in
      THEN <<<<curr_in, next_in, 0>>, <<curr_out, next_in, 1>>>>
    ELSE IF curr_in.position < next_in.position     \* position moves out
      THEN <<<<curr_out, next_out, 0>>, <<curr_in, next_out, 1>>>>
    ELSE <<<<curr_in, next_in, 0>>, <<curr_out, next_out, 0>>>>

\* all edges minimize_direction_changes adds between two adjacent layers
DirectionLayerEdges(curr_in_states, curr_out_states, next_in_states, next_out_states) ==
    LET n == Len(next_in_states)
    IN  [e \in 1..(2 * Len(curr_in_states) * n) |->
            LET pair == (e - 1) \div 2
                curr_i == (pair \div n) + 1
                next_i == (pair % n) + 1
            IN  DirectionPairEdges(curr_in_states[curr_i], curr_out_states[curr_i],
                                   next_in_states[next_i], next_out_states[next_i])
                    [((e - 1) % 2) + 1]]

\* DG = nx.DiGraph(); DG.add_node(START_NODE); DG.add_node(END_NODE)
CreateGraph ==
    /\ pc = "graph"
    /\ DG' = add_node(add_node([succ |-> <<>>, pred |-> <<>>], START_NODE), END_NODE)
    /\ pc' = "start_edges"
    /\ UNCHANGED <<inputVars, error, enumVars, id, states, out_states,
                   searchVars, path, histVars>>

\* EmptyListIndexed of a method that returns quietly on an empty list
EmptyListIgnored == [pc |-> "done", error |-> "none"]

\* what states[0] does on an empty list: it raises IndexError
EmptyListIndexed == [pc |-> "error", error |-> "IndexError"]

\* the loops over states[0] (and out_states[0])
AddStartEdges ==
    /\ pc = "start_edges"
    /\ IF Len(states) = 0
         THEN /\ pc' = EmptyListIndexed.pc
              /\ error' = EmptyListIndexed.error
              /\ UNCHANGED DG
         ELSE /\ pc' = "end_edges"
              /\ UNCHANGED error
              /\ DG' = add_weighted_edges_from(DG,
                          IF method = "direction"
                            THEN StartEdges(states[1]) \o StartEdges(out_states[1])
                            ELSE StartEdges(states[1]))
    /\ UNCHANGED <<inputVars, enumVars, id, states, out_states, searchVars,
                   path, histVars>>

\* the loops over states[-1] (and out_states[-1])
AddEndEdges ==
    /\ pc = "end_edges"
    /\ DG' = add_weighted_edges_from(DG,
                IF method = "direction"
                  THEN EndEdges(states[Len(states)]) \o EndEdges(out_states[Len(states)])
                  ELSE EndEdges(states[Len(states)]))
    /\ pc' = "layer_edges"
    /\ id' = 0
    /\ UNCHANGED <<inputVars, error, enumVars, states, out_states, searchVars,
                   path, histVars>>

\* one pass of "for id in range(len(states) - 1)" in minimize_slide_movement,
\* minimize_partial_changes and maximize_partial_changes
AddLayerEdges ==
    /\ pc = "layer_edges"
    /\ method # "direction"
    /\ id < Len(states) - 1
    /\ DG' = add_weighted_edges_from(DG,
                LayerEdges(method, states[id + 1], states[id + 2]))
    /\ id' = id + 1
    /\ UNCHANGED <<inputVars, pc, error, enumVars, states, out_states,
                   searchVars, path, histVars>>

\* one pass of "for id in range(len(in_states) - 1)" in
\* minimize_direction_changes
AddDirectionEdges ==
    /\ pc = "layer_edges"
    /\ method = "direction"
    /\ id < Len(states) - 1
    /\ DG' = add_weighted_edges_from(DG,
                DirectionLayerEdges(states[id + 1], out_states[id + 1],
                                    states[id + 2], out_states[id + 2]))
    /\ id' = id + 1
    /\ UNCHANGED <<inputVars, pc, error, enumVars, states, out_states,
                   searchVars, path, histVars>>

----------------------------------------------------------------------------
(* nx.shortest_path(DG, START_NODE, END_NODE, weight='weight'): networkx's  *)
(* bidirectional_dijkstra.  Index dir + 1 holds the forward (dir = 0) and   *)
(* the backward (dir = 1) half of dists, paths, fringe and seen.            *)

\* d[k] = v on a dict
SetKey(d, k, v) == (k :> v) @@ d

Reverse(s) == [i \in 1..Len(s) |-> s[Len(s) + 1 - i]]

\* HeapMin that breaks ties of distance by the latest entry pushed
HeapMinLatest(heap) ==
    CHOOSE e \in heap :
        \A f \in heap : e[1] < f[1] \/ (e[1] = f[1] /\ e[2] >= f[2])

\* the entry heappop returns: the least (distance, count, node)
HeapMin(heap) ==
    CHOOSE e \in heap :
        \A f \in heap : e[1] < f[1] \/ (e[1] = f[1] /\ e[2] <= f[2])

\* the loop "for w, d in neighs[dir][v].items()" over the neighbours nbrs of v;
\* S holds dists, seen, fringe, paths, c, finaldist, finalpath and whether
\* ValueError('Contradictory paths found') was raised
RECURSIVE Relax(_, _, _, _)
Relax(S, d, v, nbrs) ==
    IF nbrs = <<>> \/ S.contradictory THEN S
    ELSE
      LET w == nbrs[1].node
          cost == nbrs[1].weight
          vwLength == S.dists[d + 1][v] + cost
          seen1 == [S.seen EXCEPT ![d + 1] = SetKey(@, w, vwLength)]
          paths1 == [S.paths EXCEPT ![d + 1] = SetKey(@, w, Append(@[v], w))]
          totaldist == seen1[1][w] + seen1[2][w]
          S1 ==
            IF w \in DOMAIN S.dists[d + 1]
              THEN IF vwLength < S.dists[d + 1][w]
                     THEN [S EXCEPT !.contradictory = TRUE]
                     ELSE S
            ELSE IF w \notin DOMAIN S.seen[d + 1] \/ vwLength < S.seen[d + 1][w]
              THEN LET S2 == [S EXCEPT
                                !.seen = seen1,
                                !.fringe[d + 1] = @ \cup {<<vwLength, S.c, w>>},
                                !.c = @ + 1,
                                !.paths = paths1]
                   IN  IF /\ w \in DOMAIN seen1[1]
                          /\ w \in DOMAIN seen1[2]
                          /\ (S.finalpath = <<>> \/ S.finaldist > totaldist)
                         THEN [S2 EXCEPT
                                 !.finaldist = totaldist,
                                 !.finalpath =
                                     paths1[1][w] \o Tail(Reverse(paths1[2][w]))]
                         ELSE S2
            ELSE S
      IN  Relax(S1, d, v, Tail(nbrs))

\* InitialDir of a search that keeps dir from the call before
KeptDir == dir

\* bidirectional_dijkstra: dir = 1 before the loop, so the first pass is forward
InitialDir == 1

\* the loops that build the graph are over; bidirectional_dijkstra starts
ShortestPath ==
    /\ pc = "layer_edges"
    /\ ~(id < Len(states) - 1)
    /\ dists' = << <<>>, <<>> >>
    /\ paths' = << START_NODE :> <<START_NODE>>, END_NODE :> <<END_NODE>> >>
    /\ fringe' = << {<<0, 0, START_NODE>>}, {<<0, 1, END_NODE>>} >>
    /\ seen' = << START_NODE :> 0, END_NODE :> 0 >>
    /\ c' = 2
    /\ finaldist' = 0
    /\ finalpath' = <<>>
    /\ dir' = InitialDir
    /\ pc' = "search"
    /\ UNCHANGED <<inputVars, error, enumVars, id, states, out_states, DG,
                   path, histVars>>

\* one pass of "while fringe[0] and fringe[1]", or the raise after the loop
DijkstraStep ==
    /\ pc = "search"
    /\ IF fringe[1] = {} \/ fringe[2] = {}
         THEN /\ pc' = "error"
              /\ error' = "NetworkXNoPath"
              /\ UNCHANGED searchVars
         ELSE
           LET d == 1 - dir
               e == HeapMin(fringe[d + 1])
               dist == e[1]
               v == e[3]
               popped == [fringe EXCEPT ![d + 1] = @ \ {e}]
               dists1 == [dists EXCEPT ![d + 1] = SetKey(@, v, dist)]
               neighs == IF d = 0 THEN DG.succ[v] ELSE DG.pred[v]
               S == Relax([dists |-> dists1, seen |-> seen, fringe |-> popped,
                           paths |-> paths, c |-> c, finaldist |-> finaldist,
                           finalpath |-> finalpath, contradictory |-> FALSE],
                          d, v, neighs)
           IN  /\ dir' = d
               /\ IF v \in DOMAIN dists[d + 1]
                    THEN \* shortest path to v has already been found
                         /\ fringe' = popped
                         /\ UNCHANGED <<pc, error, dists, paths, seen, c,
                                        finaldist, finalpath>>
                    ELSE IF v \in DOMAIN dists[(1 - d) + 1]
                    THEN \* scanned in both directions: return (finaldist, finalpath)
                         /\ fringe' = popped
                         /\ dists' = dists1
                         /\ pc' = "found"
                         /\ UNCHANGED <<error, paths, seen, c, finaldist, finalpath>>
                    ELSE /\ dists' = S.dists
                         /\ seen' = S.seen
                         /\ fringe' = S.fringe
                         /\ paths' = S.paths
                         /\ c' = S.c
                         /\ finaldist' = S.finaldist
                         /\ finalpath' = S.finalpath
                         /\ IF S.contradictory
                              THEN pc' = "error" /\ error' = "ValueError"
                              ELSE UNCHANGED <<pc, error>>
    /\ UNCHANGED <<inputVars, enumVars, id, states, out_states, DG, path,
                   histVars>>

----------------------------------------------------------------------------
(* path = path[1:-1]; the rounding; return path *)

\* Trombone.State(t.id, t.pitch, round(t.position), t.partial); the rounded
\* position is kept in cents like every other position
RoundedState(t) == State(t.id, t.pitch, round(t.position) * CENT, t.partial, FALSE)

\* StripEnds that removes the start node only (path[1:])
StripStartOnly(p) == Tail(p)

\* path[1:-1]
StripEnds(p) == SubSeq(p, 2, Len(p) - 1)

Return ==
    /\ pc = "found"
    /\ LET stripped == StripEnds(finalpath)
       IN  path' = IF round_positions
                     THEN [i \in 1..Len(stripped) |-> RoundedState(stripped[i])]
                     ELSE stripped
    /\ pc' = "done"
    /\ UNCHANGED <<inputVars, error, enumVars, id, states, out_states, DG,
                   searchVars, histVars>>

\* the caller calls the same method of the same Trombone again with the same
\* pitches, and with the same or the other value of round_positions
CallAgain ==
    /\ pc \in {"done", "error"}
    /\ calls = 1
    /\ prev' = [path |-> path, error |-> error, round_positions |-> round_positions]
    /\ calls' = 2
    /\ round_positions' \in BOOLEAN
    /\ pc' = "call"
    /\ error' = "none"
    /\ path' = <<>>
    /\ UNCHANGED <<slide_length, pitches, method, enumVars, id, states,
                   out_states, DG, searchVars>>

----------------------------------------------------------------------------
OneCall ==
    \/ Call
    \/ EnumeratePartial
    \/ EnumerateBreak
    \/ EnumerateDone
    \/ CreateGraph
    \/ AddStartEdges
    \/ AddEndEdges
    \/ AddLayerEdges
    \/ AddDirectionEdges
    \/ ShortestPath
    \/ DijkstraStep
    \/ Return

Next == OneCall

\* one call of an optimizer method
Spec == Init /\ [][Next]_vars

NextTwice == OneCall \/ CallAgain

\* two calls in a row with the same arguments
SpecTwice == Init /\ [][NextTwice]_vars

\* float('inf') as a slide length: greater than every position
INFINITE_SLIDE_LENGTH == 1000000

\* the slide lengths of Init and one that no position ever exceeds
ANY_SLIDE_LENGTHS == SLIDE_LENGTHS \cup {INFINITE_SLIDE_LENGTH}

\* Init with the slide length drawn from every configuration Trombone accepts
InitAnyConfig ==
    /\ slide_length \in ANY_SLIDE_LENGTHS
    /\ pitches \in PitchSeqs
    /\ method \in METHODS
    /\ round_positions \in BOOLEAN
    /\ pc = "call"
    /\ error = "none"
    /\ out = FALSE
    /\ id = 0
    /\ partial = 0
    /\ positions = <<>>
    /\ partials = <<>>
    /\ states = <<>>
    /\ out_states = <<>>
    /\ DG = [succ |-> <<>>, pred |-> <<>>]
    /\ dists = <<>>
    /\ paths = <<>>
    /\ fringe = <<>>
    /\ seen = <<>>
    /\ c = 0
    /\ finaldist = 0
    /\ finalpath = <<>>
    /\ dir = 1
    /\ path = <<>>
    /\ calls = 1
    /\ prev = [path |-> <<>>, error |-> "none", round_positions |-> FALSE]

\* one call of an optimizer method on a Trombone of any slide length
SpecAnyConfig == InitAnyConfig /\ [][Next]_vars

----------------------------------------------------------------------------
(* What the claims speak about, stated without the graph and the search *)

\* the partials the table Log2Cents covers
Partials == 0..(Len(Log2Cents) - 1)

\* get_position tabulated over the pitches and partials of the model
PositionTable == [p \in PITCHES |-> [k \in Partials |-> get_position(p, k)]]

\* the partials of pitch p whose position lies in (-0.5, slide_length]
Candidates(p) ==
    {k \in Partials :
        PositionTable[p][k] > FLAT_TOLERANCE /\ PositionTable[p][k] <= slide_length}

\* every way to pick one candidate partial for each of the first n notes
RECURSIVE ChoicesUpTo(_)
ChoicesUpTo(n) ==
    IF n = 0 THEN {<<>>}
    ELSE {Append(f, k) : f \in ChoicesUpTo(n - 1), k \in Candidates(pitches[n])}

\* every way to pick one candidate partial per note
Choices == ChoicesUpTo(Len(pitches))

\* the unrounded positions of a choice of partials
PositionsOf(f) == [i \in 1..Len(pitches) |-> PositionTable[pitches[i]][f[i]]]

\* the states the search selected, before any rounding
Chosen == StripEnds(finalpath)

ChosenPositions == [i \in 1..Len(Chosen) |-> Chosen[i].position]
ChosenPartials == [i \in 1..Len(Chosen) |-> Chosen[i].partial]

RECURSIVE SumOver(_, _)
SumOver(q, i) == IF i > Len(q) THEN 0 ELSE q[i] + SumOver(q, i + 1)

\* sum over adjacent notes of |position_i - position_{i+1}|
SlideTravel(pos) ==
    SumOver([i \in 1..(Len(pos) - 1) |-> abs(pos[i] - pos[i + 1])], 1)

\* number of adjacent notes whose partials differ
PartialSwitches(parts) ==
    SumOver([i \in 1..(Len(parts) - 1) |->
                IF parts[i] = parts[i + 1] THEN 0 ELSE 1], 1)

\* number of adjacent notes with the same partial
PartialRepeats(parts) ==
    SumOver([i \in 1..(Len(parts) - 1) |->
                IF parts[i] = parts[i + 1] THEN 1 ELSE 0], 1)

\* number of moves from note i on whose direction differs from the direction
\* of the most recent earlier non-zero move (last: 1 extend, -1 retract,
\* 0 no move yet)
RECURSIVE ReversalsFrom(_, _, _)
ReversalsFrom(pos, i, last) ==
    IF i >= Len(pos) THEN 0
    ELSE LET move == IF pos[i + 1] > pos[i] THEN 1
                     ELSE IF pos[i + 1] < pos[i] THEN -1 ELSE 0
         IN  IF move = 0 THEN ReversalsFrom(pos, i + 1, last)
             ELSE (IF last # 0 /\ move # last THEN 1 ELSE 0)
                     + ReversalsFrom(pos, i + 1, move)

Reversals(pos) == ReversalsFrom(pos, 1, 0)

Finished == pc \in {"done", "error"}

----------------------------------------------------------------------------
(* The claims *)

\* C1: distance mode returns a path whose total slide travel, on the unrounded
\* positions, is at most that of every other choice of one candidate per note.
C1_DistanceOptimal ==
    (pc = "done" /\ method = "distance") =>
        \A f \in Choices : SlideTravel(ChosenPositions) <= SlideTravel(PositionsOf(f))

\* C1 witness: a finished distance call on three notes where some other choice
\* of candidates travels strictly further than the returned path.
C1_Witness ==
    /\ pc = "done" /\ method = "distance" /\ Len(pitches) = 3
    /\ \E f \in Choices : SlideTravel(ChosenPositions) < SlideTravel(PositionsOf(f))
    /\ SlideTravel(ChosenPositions) > 0

\* C2 as stated: every mode returns n states, the i-th with sequence index i,
\* pitch P[i] and a (position, partial) pair enumerated for P[i].
C2_Original ==
    pc = "done" =>
        /\ Len(path) = Len(pitches)
        /\ \A i \in 1..Len(path) :
              /\ path[i].id = i - 1
              /\ path[i].pitch = pitches[i]
              /\ path[i].partial \in Candidates(pitches[i])
              /\ path[i].position = get_position(pitches[i], path[i].partial)

\* C2 amended: every mode returns n states, the i-th with sequence index i,
\* pitch P[i] and the partial of a candidate of P[i]; its position is that
\* candidate's position, replaced by the nearest integer when round_positions
\* is set.
C2_OnePerPitch ==
    pc = "done" =>
        /\ Len(path) = Len(pitches)
        /\ \A i \in 1..Len(path) :
              /\ path[i].id = i - 1
              /\ path[i].pitch = pitches[i]
              /\ path[i].partial \in Candidates(pitches[i])
              /\ path[i].position =
                    IF round_positions
                      THEN round(get_position(pitches[i], path[i].partial)) * CENT
                      ELSE get_position(pitches[i], path[i].partial)

\* C2 witness: a finished direction call on three notes with round_positions,
\* where a returned position differs from the candidate's own.
C2_Witness ==
    /\ pc = "done" /\ method = "direction" /\ Len(pitches) = 3 /\ round_positions
    /\ \E i \in 1..Len(path) :
          path[i].position # get_position(pitches[i], path[i].partial)

C3_WitnessAvoided ==
    /\ pc = "done" /\ method = "direction" /\ slide_length = TROMBONE_SLIDE_LENGTH
    /\ Reversals(ChosenPositions) = 0
    /\ \E f \in Choices : Reversals(PositionsOf(f)) > 0

\* C4: gliss mode returns a path with the fewest adjacent pairs whose partials
\* differ, over all choices of one candidate per note.
C4_GlissOptimal ==
    (pc = "done" /\ method = "gliss") =>
        \A f \in Choices : PartialSwitches(ChosenPartials) <= PartialSwitches(f)

\* C4 witness: a finished gliss call that avoids a switch another choice makes,
\* and one that cannot avoid every switch.
C4_Witness ==
    /\ pc = "done" /\ method = "gliss" /\ Len(pitches) = 3
    /\ PartialSwitches(ChosenPartials) = 1
    /\ \E f \in Choices : PartialSwitches(f) = 2

EnumeratedExactly(layer, p) ==
    /\ {layer[j].partial : j \in DOMAIN layer} = Candidates(p)
    /\ \A j \in DOMAIN layer :
          /\ layer[j].position = PositionTable[p][layer[j].partial]
          /\ layer[j].position > FLAT_TOLERANCE
          /\ layer[j].position <= slide_length
    /\ \A j, k \in DOMAIN layer : j < k => layer[j].partial < layer[k].partial

\* C6: the enumeration of a pitch returns exactly the partials whose position
\* lies in (-0.5, slide_length], each with that position, in strictly ascending
\* partial order; while the loop runs it holds those below the current partial.
C6_EnumerationExact ==
    /\ pc \in {"enumerate", "graph", "error"} =>
          /\ \A i \in DOMAIN states : EnumeratedExactly(states[i], pitches[i])
          /\ \A i \in DOMAIN out_states :
                EnumeratedExactly(out_states[i], pitches[i])
    /\ (pc = "enumerate" /\ id < Len(pitches)) =>
          /\ {partials[j] : j \in DOMAIN partials} =
                {k \in Candidates(pitches[id + 1]) : k < partial}
          /\ Len(positions) = Len(partials)
    /\ (pc = "error" /\ error = "ValueError") => Candidates(pitches[id + 1]) = {}

\* C6 witness: the enumeration of a pitch has returned three candidates, the
\* first of them flat of first position, after skipping lower partials.
C6_Witness ==
    \E i \in DOMAIN states :
        /\ Len(states[i]) = 3
        /\ states[i][1].position < 0
        /\ states[i][1].partial > 0

\* some pitch of the sequence has no (position, partial) pair within the slide
Unplayable == \E i \in 1..Len(pitches) : Candidates(pitches[i]) = {}

\* C7: the enumerator never returns an empty candidate list; a call whose
\* sequence holds an unplayable pitch never gets past the enumeration, ends
\* only with the ValueError of get_states_of_pitch and returns no path, in
\* every mode and wherever the pitch sits; the loop always reaches its break.
C7_UnplayablePitch ==
    /\ \A i \in DOMAIN states : states[i] # <<>>
    /\ \A i \in DOMAIN out_states : out_states[i] # <<>>
    /\ Unplayable =>
          /\ pc \in {"call", "enumerate", "error"}
          /\ path = <<>>
          /\ pc = "error" => error = "ValueError"
    /\ (pc = "error" /\ error = "ValueError") => Unplayable
    /\ (pc = "enumerate" /\ id < Len(pitches)) => partial <= MaxPartial

\* C7 witness: a direction call has raised on the last of three pitches, after
\* the first two were enumerated.
C7_Witness ==
    /\ pc = "error" /\ error = "ValueError" /\ method = "direction"
    /\ Len(pitches) = 3 /\ Len(states) = 2 /\ path = <<>>

\* C8 as stated: for an empty sequence no graph is built before the error.
C8_Original ==
    Len(pitches) = 0 => DOMAIN DG.succ = {}

\* C8 amended: an empty sequence is rejected with an error (the IndexError of
\* states[0]) in every mode and no path is returned; the error is raised after
\* the graph was created with its START and END nodes, before any edge is
\* added and before the search runs.
C8_EmptyRejected ==
    Len(pitches) = 0 =>
        /\ pc \in {"call", "enumerate", "graph", "start_edges", "error"}
        /\ path = <<>>
        /\ \A n \in DOMAIN DG.succ : DG.succ[n] = <<>> /\ DG.pred[n] = <<>>
        /\ pc = "error" =>
              /\ error = "IndexError"
              /\ DOMAIN DG.succ = {START_NODE, END_NODE}

\* C8 witness: a direction call on the empty sequence has raised.
C8_Witness ==
    /\ pc = "error" /\ error = "IndexError" /\ Len(pitches) = 0
    /\ method = "direction"
    /\ DOMAIN DG.succ = {START_NODE, END_NODE}

\* C9: a call with round_positions and a call without it on the same pitches
\* select the same (index, pitch, partial) at every note, and the rounded path
\* differs only in that each position is the nearest integer; the distance
\* weights in the graph are taken on the unrounded positions.
C9_RoundingNoInfluence ==
    /\ (calls = 2 /\ pc = "done" /\ prev.round_positions # round_positions) =>
          /\ prev.error = "none"
          /\ Len(path) = Len(prev.path)
          /\ \A i \in 1..Len(path) :
                /\ path[i].id = prev.path[i].id
                /\ path[i].pitch = prev.path[i].pitch
                /\ path[i].partial = prev.path[i].partial
                /\ LET r == IF round_positions THEN path[i] ELSE prev.path[i]
                       u == IF round_positions THEN prev.path[i] ELSE path[i]
                   IN  r.position = round(u.position) * CENT
    /\ (pc = "search" /\ method = "distance") =>
          \A u \in DOMAIN DG.succ : \A j \in DOMAIN DG.succ[u] :
              LET v == DG.succ[u][j].node
              IN  (u # START_NODE /\ v # END_NODE) =>
                     DG.succ[u][j].weight =
                         abs(PositionTable[u.pitch][u.partial]
                               - PositionTable[v.pitch][v.partial])

\* C9 witness: the second of two distance calls, made with round_positions
\* after one without, has returned a path on which rounding moved a position,
\* and the pitches are ones where rounded weights would tie.
C9_Witness ==
    /\ calls = 2 /\ pc = "done" /\ method = "distance"
    /\ round_positions /\ ~prev.round_positions
    /\ Len(path) >= 2
    /\ \E i \in 1..Len(path) : path[i].position # prev.path[i].position

----------------------------------------------------------------------------
(* Monotonicity of the position in the partial *)

\* the pitch whose partials the enumeration loop is examining
Enumerating == pc = "enumerate" /\ id < Len(pitches)

\* C11 as stated: for the pitch being enumerated, the position computed by
\* get_position strictly decreases as the partial increases,
\* position(k + 1) < position(k)
C11_Original ==
    Enumerating =>
        \A k \in Partials :
            (k + 1) \in Partials =>
                PositionTable[pitches[id + 1]][k + 1]
                    < PositionTable[pitches[id + 1]][k]

\* C11 amended: for the pitch being enumerated, the position computed by
\* get_position strictly increases as the partial increases,
\* position(k + 1) > position(k), so the playable positions the loop has
\* collected are in strictly increasing order
C11_PositionIncreases ==
    Enumerating =>
        /\ \A k \in Partials :
               (k + 1) \in Partials =>
                   PositionTable[pitches[id + 1]][k + 1]
                       > PositionTable[pitches[id + 1]][k]
        /\ \A j \in 1..(Len(positions) - 1) :
               /\ positions[j] < positions[j + 1]
               /\ partials[j] < partials[j + 1]

\* the loop has collected three positions of one pitch at growing partials
C11_Witness ==
    /\ Enumerating
    /\ Len(positions) = 3
    /\ positions[1] < positions[3]
    /\ partials[1] < partials[3]

----------------------------------------------------------------------------
(* An instrument with slide_length = 0 *)

\* pitch p has a partial whose position is exactly 0
ExactlyAtZero(p) == \E k \in Partials : PositionTable[p][k] = 0

\* pitch p has a partial whose position is in (-0.5, 0]
WithinFlatTolerance(p) ==
    \E k \in Partials :
        PositionTable[p][k] > FLAT_TOLERANCE /\ PositionTable[p][k] <= 0

\* C12 as stated: with slide_length = 0 the call raises the unplayable-pitch
\* error whenever some pitch has no partial at position exactly 0, pitches
\* whose partial falls slightly below 0 included
C12_Original ==
    (Finished /\ slide_length = 0
        /\ \E i \in 1..Len(pitches) : ~ExactlyAtZero(pitches[i]))
    => (pc = "error" /\ error = "ValueError")

\* C12 amended: with slide_length = 0 the call raises the unplayable-pitch
\* error exactly when some pitch has no partial with a position in (-0.5, 0];
\* a pitch whose partial falls slightly below 0 is playable and is returned
\* at that negative position
C12_ZeroSlide ==
    (Finished /\ slide_length = 0 /\ pitches # <<>>)
    => /\ (pc = "error" /\ error = "ValueError")
              <=> \E i \in 1..Len(pitches) : ~WithinFlatTolerance(pitches[i])
       /\ pc = "done" =>
              \A i \in 1..Len(pitches) :
                  /\ Chosen[i].position > FLAT_TOLERANCE
                  /\ Chosen[i].position <= 0

\* a call with slide_length = 0 has returned a pitch played slightly flat
\* next to one played at exactly 0
C12_Witness ==
    /\ slide_length = 0
    /\ pc = "done"
    /\ \E i, j \in 1..Len(pitches) :
           /\ Chosen[i].position < 0
           /\ ~ExactlyAtZero(pitches[i])
           /\ Chosen[j].position = 0

----------------------------------------------------------------------------
(* The position field of a state *)

\* the position of st is the one get_position derives from its pitch and partial
Derived(st) ==
    /\ st.pitch \in PITCHES
    /\ st.partial \in Partials
    /\ st.position = PositionTable[st.pitch][st.partial]

\* the position of st is the derived one rounded to the nearest integer
DerivedRounded(st) ==
    /\ st.pitch \in PITCHES
    /\ st.partial \in Partials
    /\ st.position = round(PositionTable[st.pitch][st.partial]) * CENT

\* the states the engine has constructed: those of get_states_of_pitches, the
\* nodes of the graph and the states on the path found
Constructed ==
    UNION {{sts[i][j] : j \in 1..Len(sts[i])} :
              <<sts, i>> \in ({states} \X (1..Len(states)))
                             \cup ({out_states} \X (1..Len(out_states)))}
      \cup ((DOMAIN DG.succ \cup {finalpath[i] : i \in 1..Len(finalpath)})
               \ {START_NODE, END_NODE})

\* the states the call has returned
Returned == {path[i] : i \in 1..Len(path)}

\* C13 as stated: in every state the engine constructs or returns, with or
\* without round_positions, the position equals get_position(pitch, partial)
C13_Original == \A st \in Constructed \cup Returned : Derived(st)

\* C13 amended: in every state the engine constructs, and in every state it
\* returns without round_positions, the position equals
\* get_position(pitch, partial); with round_positions the returned states carry
\* that value rounded to the nearest integer
C13_PositionDerived ==
    /\ \A st \in Constructed : Derived(st)
    /\ \A st \in Returned :
           IF round_positions THEN DerivedRounded(st) ELSE Derived(st)

\* a call with round_positions has returned a state whose position is not the
\* derived one, out of a graph whose nodes all carry the derived position
C13_Witness ==
    /\ pc = "done"
    /\ round_positions
    /\ Len(pitches) = 3
    /\ \E st \in Returned : ~Derived(st) /\ DerivedRounded(st)
    /\ \E st \in Constructed : Derived(st) /\ st.position # round(st.position) * CENT

----------------------------------------------------------------------------
(* Termination of the enumeration loop *)

\* C14: for every pitch and every instrument configuration, one with a slide
\* length that no position ever exceeds included, the loop of
\* get_positions_and_partials stops after a bounded number of partials: it is
\* never still running once it has examined the partials 0 .. MaxPartial
C14_LoopCapped == Enumerating => partial <= MaxPartial

\* C14 for the slide lengths some position exceeds: the loop breaks at a
\* partial the model examines
C14_FiniteSlideBreaks ==
    (Enumerating /\ slide_length \in SLIDE_LENGTHS) =>
        \E k \in partial..MaxPartial : TooHigh(PositionTable[pitches[id + 1]][k])

----------------------------------------------------------------------------
(* Which of several paths of the least weight is returned *)

\* the quantity the mode minimizes, for a choice f of one partial per note
Cost(f) ==
    CASE method = "distance" -> SlideTravel(PositionsOf(f))
      [] method = "direction" -> Reversals(PositionsOf(f))
      [] method = "gliss" -> PartialSwitches(f)
      [] method = "legato" -> PartialRepeats(f)

\* the choices of the least cost
Optimal == {f \in Choices : \A g \in Choices : Cost(f) <= Cost(g)}

\* f has at no note a higher partial than g, and at some note a lower one
LowerPartials(f, g) ==
    /\ f # g
    /\ \A i \in 1..Len(g) : f[i] <= g[i]

\* the least partial enumerated for pitch p
FirstEnumerated(p) ==
    CHOOSE k \in Candidates(p) : \A l \in Candidates(p) : k <= l

\* the direction-mode scenario [C4, D4, C4] on the standard trombone
DirectionScenario ==
    /\ method = "direction"
    /\ slide_length = TROMBONE_SLIDE_LENGTH
    /\ pitches = <<Pitch(Note.C, 4), Pitch(Note.D, 4), Pitch(Note.C, 4)>>

\* C15 as stated: among the paths of the least weight the one returned
\* prefers the lower partial at each note, in every mode: no other path of
\* the least weight has lower partials than the one returned
C15_Original ==
    pc = "done" =>
        /\ ChosenPartials \in Optimal
        /\ \A f \in Optimal : ~LowerPartials(f, ChosenPartials)

\* C15 amended: the path returned is one of the paths of the least weight, the
\* one the shortest-path search reaches first, which need not have the lower
\* partials; for a single note it is the first enumerated state, the lowest
\* partial and in direction mode its in-variant, and in the direction-mode
\* scenario [C4, D4, C4] it is the partials 5, 5, 4, rounded positions
\* 5, 3, 2, although the partials 4, 5, 5 cost the same
C15_TieBreak ==
    pc = "done" =>
        /\ ChosenPartials \in Optimal
        /\ Len(pitches) = 1 =>
               /\ ChosenPartials[1] = FirstEnumerated(pitches[1])
               /\ ~Chosen[1].out
        /\ DirectionScenario =>
               /\ ChosenPartials = <<5, 5, 4>>
               /\ [i \in 1..3 |-> round(ChosenPositions[i])] = <<5, 3, 2>>
               /\ <<4, 5, 5>> \in Optimal
               /\ round_positions =>
                      [i \in 1..3 |-> path[i].position] = <<5 * CENT, 3 * CENT, 2 * CENT>>

\* the direction-mode scenario has returned the rounded positions 5, 3, 2
\* where a path of the same weight has a lower partial on the first note
C15_Witness ==
    /\ pc = "done"
    /\ DirectionScenario
    /\ round_positions
    /\ [i \in 1..3 |-> path[i].position] = <<5 * CENT, 3 * CENT, 2 * CENT>>
    /\ \E f \in Optimal : f[1] < ChosenPartials[1]

====
